---- MODULE Spec2Model ----
(***************************************************************************)
(* The document perturbation engine of retrieval_exploration               *)
(* (src/src/retrieval_exploration/perturbations.py): the Perturber, its    *)
(* six operators and the document selector _select_docs.                   *)
(*                                                                         *)
(* A string is a sequence of tokens; the token Sep is the document         *)
(* separator (doc_sep_token) and every other token is a word.  White space *)
(* around tokens is not represented, so str.strip() and the single-space   *)
(* padding of the join are the identity on token sequences.  An optional   *)
(* value is a sequence of length 0 (None) or 1 (the value).                *)
(***************************************************************************)
EXTENDS Integers, Sequences, FiniteSets, TLC

\* ------------------------------------------------------------ bounds
\* Examples per batch, and calls made on one Perturber.
MaxBatch == 2
MaxCalls == 2

\* ------------------------------------------------------------ values
Sep == "|"
None == <<>>
Some(x) == <<x>>

\* Python truthiness of Optional[str]: None and "" are falsey.
Truthy(opt) == opt # None /\ opt[1] # <<>>

\* perturbed_frac is a rational <<num, den>>; Python's `not perturbed_frac`.
FracFalsey(frac) == frac = None \/ frac[1][1] = 0

\* math.ceil(perturbed_frac * num_docs)
CeilFrac(frac, num_docs) == (frac[1][1] * num_docs + frac[1][2] - 1) \div frac[1][2]

RECURSIVE SumSeq(_)
SumSeq(s) == IF s = <<>> THEN 0 ELSE Head(s) + SumSeq(Tail(s))

RECURSIVE Flatten(_)
\* more_itertools.flatten
Flatten(ss) == IF ss = <<>> THEN <<>> ELSE Head(ss) \o Flatten(Tail(ss))

InSeq(x, s) == \E j \in 1..Len(s) : s[j] = x

\* list.index: the first position holding x (0 when absent).
IndexOf(s, x) == IF InSeq(x, s) THEN CHOOSE j \in 1..Len(s) : s[j] = x /\ \A h \in 1..(j - 1) : s[h] # x ELSE 0

RECURSIVE Filter(_, _)
\* [doc for doc in documents if doc not in query_docs]
Filter(s, drop) ==
    IF s = <<>> THEN <<>>
    ELSE IF InSeq(Head(s), drop) THEN Filter(Tail(s), drop)
    ELSE <<Head(s)>> \o Filter(Tail(s), drop)

RECURSIVE Dedup(_, _)
\* list(dict.fromkeys(documents)): first occurrence wins, order preserved.
Dedup(s, seen) ==
    IF s = <<>> THEN <<>>
    ELSE IF InSeq(Head(s), seen) THEN Dedup(Tail(s), seen)
    ELSE <<Head(s)>> \o Dedup(Tail(s), Append(seen, Head(s)))

\* ------------------------------------------------------------ util
RECURSIVE StripLeft(_)
StripLeft(text) == IF text # <<>> /\ Head(text) = Sep THEN StripLeft(Tail(text)) ELSE text

RECURSIVE StripRight(_)
StripRight(text) ==
    IF text # <<>> /\ text[Len(text)] = Sep THEN StripRight(SubSeq(text, 1, Len(text) - 1)) ELSE text

RECURSIVE SplitAt(_, _, _)
SplitAt(text, cur, acc) ==
    IF text = <<>> THEN Append(acc, cur)
    ELSE IF Head(text) = Sep THEN SplitAt(Tail(text), <<>>, Append(acc, cur))
    ELSE SplitAt(Tail(text), Append(cur, Head(text)), acc)

\* util.split_docs: the documents of a string, leading and trailing separators ignored.
split_docs(text) == SplitAt(StripRight(StripLeft(text)), <<>>, <<>>)

\* util.get_num_docs
get_num_docs(text) == Len(split_docs(text))

RECURSIVE join(_)
\* f" {doc_sep_token} ".join(docs)
join(docs) ==
    IF docs = <<>> THEN <<>>
    ELSE IF Len(docs) = 1 THEN docs[1]
    ELSE docs[1] \o <<Sep>> \o join(Tail(docs))

\* ------------------------------------------------------------ random.Random
\* The generator's states; random.Random(seed) starts in the state the seed
\* fixes, random.Random(None) in a state drawn from the operating system.
RngStates == 0..2

SeedState(seed) == (2 * seed[1] + 1) % Cardinality(RngStates)

\* Mutant of RngInit: the seed is not passed on to random.Random.
RngInitUnseeded(seed) == RngStates

RngInit(seed) == IF seed = None THEN RngStates ELSE {SeedState(seed)}

\* One draw below n: the value and the generator's next state.
RandBelow(s, n) == [val |-> s % n, next |-> (s + 1) % Cardinality(RngStates)]

RECURSIVE SampleLoop(_, _, _, _)
SampleLoop(pool, m, left, s) ==
    IF left = 0 THEN [out |-> <<>>, rng |-> s]
    ELSE LET d == RandBelow(s, m)
             j == d.val + 1
             rest == SampleLoop([pool EXCEPT ![j] = pool[m]], m - 1, left - 1, d.next)
         IN [out |-> <<pool[j]>> \o rest.out, rng |-> rest.rng]

\* Random.sample(population, k): k picks without replacement.
Sample(s, population, k) == SampleLoop(population, Len(population), k, s)

RECURSIVE ShuffleLoop(_, _, _)
ShuffleLoop(x, p, s) ==
    IF p < 2 THEN [out |-> x, rng |-> s]
    ELSE LET d == RandBelow(s, p)
             j == d.val + 1
         IN ShuffleLoop([x EXCEPT ![p] = x[j], ![j] = x[p]], p - 1, d.next)

\* Random.shuffle(x)
Shuffle(s, x) == ShuffleLoop(x, Len(x), s)

\* ------------------------------------------------------------ embedder
\* The sentence embedder is external: dot_score of two normalized embeddings
\* is some fixed function of the two texts.  Texts are compared by their
\* first word; distinct words never tie against the same reference.
WordCode(w) ==
    CASE w = "a" -> 1 [] w = "b" -> 2 [] w = "c" -> 4 [] w = "d" -> 7
      [] w = "s" -> 10 [] w = "t" -> 6 [] OTHER -> 12

Distance(m, n) == IF m < n THEN n - m ELSE m - n

dot_score(x, y) ==
    IF x = <<>> \/ y = <<>> THEN 0 ELSE 20 - Distance(WordCode(x[1]), WordCode(y[1]))

RECURSIVE TopKLoop(_, _, _, _)
\* The positions of the k largest (smallest) scores, best first; equal scores
\* in insertion order.
TopKLoop(scores, left, k, largest) ==
    IF k = 0 THEN <<>>
    ELSE LET best == CHOOSE j \in left : \A h \in left :
                        IF largest
                        THEN scores[j] > scores[h] \/ (scores[j] = scores[h] /\ j <= h)
                        ELSE scores[j] < scores[h] \/ (scores[j] = scores[h] /\ j <= h)
         IN <<best>> \o TopKLoop(scores, left \ {best}, k - 1, largest)

\* torch.topk(scores, k, largest, sorted=True).indices
topk(scores, k, largest) == TopKLoop(scores, 1..Len(scores), k, largest)

\* ------------------------------------------------------------ results
\* What one operator (or selector) invocation yields: its value, the random
\* source afterwards, the error raised ("" when none), the warnings emitted,
\* the document tuples handed to _get_doc_embeddings (in order), the number
\* of direct embedder.encode calls, and the selector invocations made.
Done(val, s, warn, reqs, nenc) ==
    [val |-> val, rng |-> s, err |-> "", warn |-> warn, reqs |-> reqs, nenc |-> nenc,
     log |-> <<>>]

Raise(e, s, warn, reqs, nenc) ==
    [val |-> <<>>, rng |-> s, err |-> e, warn |-> warn, reqs |-> reqs, nenc |-> nenc,
     log |-> <<>>]

\* Continue after a selection: its error as it is, else its value mapped by F.
Then(sel, F(_)) ==
    IF sel.err # "" THEN sel ELSE [sel EXCEPT !.val = F(sel.val)]

\* A draw of the random source as a result.
Drawn(r, warn) == Done(r.out, r.rng, warn, <<>>, 0)

\* ------------------------------------------------------------ Perturber._select_docs
\* Mutant of Candidates: the documents of query are not removed.
CandidatesUnfiltered(documents, query) ==
    Flatten([j \in 1..Len(documents) |-> split_docs(documents[j])])

\* Extract all individual documents; if query is provided, remove its documents.
Candidates(documents, query) ==
    IF query # None
    THEN Filter(Flatten([j \in 1..Len(documents) |-> split_docs(documents[j])]), split_docs(query[1]))
    ELSE Flatten([j \in 1..Len(documents) |-> split_docs(documents[j])])

\* dot_score against the target, else the mean over the query's documents
\* (their number is the same for every candidate, so the sum ranks alike).
QueryScore(query_docs, doc) == SumSeq([q \in 1..Len(query_docs) |-> dot_score(query_docs[q], doc)])

Scores(cands, query, target) ==
    IF Truthy(target)
    THEN [j \in 1..Len(cands) |-> dot_score(target[1], cands[j])]
    ELSE [j \in 1..Len(cands) |-> QueryScore(split_docs(query[1]), cands[j])]

\* [documents[i] for i in indices]
Ranked(cands, indices) == [j \in 1..Len(indices) |-> cands[indices[j]]]

TargetWarning(self, target) ==
    IF self.strategy = "random" /\ target # None THEN {"target-ignored"} ELSE {}

\* Mutant of Pick: a target given is used for ranking under every strategy.
PickByTarget(self, cands, k, query, target, largest) ==
    IF self.strategy = "random" /\ ~Truthy(target)
    THEN Drawn(Sample(self.rng, cands, k), TargetWarning(self, target))
    ELSE Done(Ranked(cands, topk(Scores(cands, query, target), k, largest)),
              self.rng, {}, <<cands>>, 1)

\* The k documents: sampled, or the top k by score.
Pick(self, cands, k, query, target, largest) ==
    IF self.strategy = "random"
    THEN Drawn(Sample(self.rng, cands, k), TargetWarning(self, target))
    ELSE Done(Ranked(cands, topk(Scores(cands, query, target), k, largest)),
              self.rng, {}, <<cands>>, 1)

\* Mutant of SelectFrom: too few candidates yield as many as there are.
SelectFromClamped(self, cands, k, query, target, largest) ==
    IF self.strategy # "random" /\ ~Truthy(query) /\ ~Truthy(target)
    THEN Raise("InvalidArgument", self.rng, {}, <<>>, 0)
    ELSE Pick(self, cands, IF Len(cands) < k THEN Len(cands) ELSE k, query, target, largest)

\* Mutant of SelectFrom: the candidates are counted before the arguments are checked.
SelectFromCountFirst(self, cands, k, query, target, largest) ==
    IF Len(cands) < k
    THEN Raise("InsufficientCandidates", self.rng, TargetWarning(self, target), <<>>, 0)
    ELSE IF self.strategy # "random" /\ ~Truthy(query) /\ ~Truthy(target)
    THEN Raise("InvalidArgument", self.rng, {}, <<>>, 0)
    ELSE Pick(self, cands, k, query, target, largest)

SelectFrom(self, cands, k, query, target, largest) ==
    IF self.strategy # "random" /\ ~Truthy(query) /\ ~Truthy(target)
    THEN Raise("InvalidArgument", self.rng, {}, <<>>, 0)
    ELSE IF Len(cands) < k
    THEN Raise("InsufficientCandidates", self.rng, TargetWarning(self, target), <<>>, 0)
    ELSE Pick(self, cands, k, query, target, largest)

\* The invocation as the log keeps it: the arguments, the documents left
\* after flattening and filtering, and the outcome.
Logged(r, documents, k, query, target, largest) ==
    [r EXCEPT !.log = <<[documents |-> documents, k |-> k, query |-> query, target |-> target,
                         largest |-> largest, cands |-> Candidates(documents, query),
                         err |-> r.err, val |-> r.val, rng |-> r.rng, reqs |-> r.reqs]>>]

_select_docs(self, documents, k, query, target, largest) ==
    Logged(SelectFrom(self, Candidates(documents, query), k, query, target, largest),
           documents, k, query, target, largest)

\* ------------------------------------------------------------ operators
\* The translation model is external: some fixed text-to-text function, under
\* which a translated text may equal another document's text.
Translate(doc) ==
    IF doc = <<>> THEN <<>>
    ELSE CASE doc[1] = "a" -> <<"b">> [] doc[1] = "b" -> <<"x">> [] doc[1] = "c" -> <<"c">>
           [] OTHER -> <<"y">>

\* The document the j-th round of the substitution looks up: sampled_docs is
\* input_docs itself when every document is translated, and is then read as
\* it changes.
SampledAt(input_docs, sampled_docs, j, aliased) == IF aliased THEN input_docs[j] ELSE sampled_docs[j]

RECURSIVE SubstituteLoop(_, _, _, _)
\* for sampled, translated in zip(sampled_docs, back_translated_docs):
\*     input_docs[input_docs.index(sampled)] = translated
SubstituteLoop(input_docs, sampled_docs, j, aliased) ==
    IF j > Len(sampled_docs) THEN input_docs
    ELSE SubstituteLoop(
             [input_docs EXCEPT ![IndexOf(input_docs, SampledAt(input_docs, sampled_docs, j, aliased))] =
                 Translate(SampledAt(input_docs, sampled_docs, j, aliased))],
             sampled_docs, j + 1, aliased)

BacktranslationOf(self, example, input_docs, num_docs, k, target) ==
    Then(IF k = num_docs THEN Done(input_docs, self.rng, {}, <<>>, 0)
         ELSE IF self.strategy = "random"
         THEN _select_docs(self, <<example>>, k, None, None, TRUE)
         ELSE _select_docs(self, <<example>>, k, None, target, self.strategy = "worst-case"),
         LAMBDA sampled_docs : join(SubstituteLoop(input_docs, sampled_docs, 1, k = num_docs)))

backtranslation(self, example, perturbed_frac, target, documents) ==
    BacktranslationOf(self, example, split_docs(example), get_num_docs(example),
                      CeilFrac(perturbed_frac, get_num_docs(example)), target)

\* Mutant of SortingOf: the polarity of the ranking is inverted.
SortingOfInverted(self, example, input_docs, target) ==
    Then(IF self.strategy = "random"
         THEN Drawn(Shuffle(self.rng, input_docs), {})
         ELSE _select_docs(self, <<example>>, Len(input_docs), None, target,
                           self.strategy = "worst-case"),
         LAMBDA docs : join(docs))

SortingOf(self, example, input_docs, target) ==
    Then(IF self.strategy = "random"
         THEN Drawn(Shuffle(self.rng, input_docs), {})
         ELSE _select_docs(self, <<example>>, Len(input_docs), None, target,
                           self.strategy = "best-case"),
         LAMBDA docs : join(docs))

\* Mutant of sorting: the documents of the whole pool are sorted.
SortingOverPool(self, example, perturbed_frac, target, documents) ==
    SortingOf(self, example, Flatten([j \in 1..Len(documents) |-> split_docs(documents[j])]), target)

sorting(self, example, perturbed_frac, target, documents) ==
    SortingOf(self, example, split_docs(example), target)

\* The documents duplication repeats (lines 262-272).
Repeaters(self, example, input_docs, num_docs, k, target) ==
    IF k = num_docs THEN Done(input_docs, self.rng, {}, <<>>, 0)
    ELSE IF self.strategy = "random"
    THEN Drawn(Sample(self.rng, input_docs, k), {})
    ELSE _select_docs(self, <<example>>, k, None, target, self.strategy = "best-case")

\* Mutant of DuplicationOf: the repeated documents are put in front.
DuplicationOfInFront(self, example, input_docs, num_docs, k, target) ==
    Then(Repeaters(self, example, input_docs, num_docs, k, target),
         LAMBDA repeaters : join(repeaters \o input_docs))

DuplicationOf(self, example, input_docs, num_docs, k, target) ==
    Then(Repeaters(self, example, input_docs, num_docs, k, target),
         LAMBDA repeaters : join(input_docs \o repeaters))

duplication(self, example, perturbed_frac, target, documents) ==
    DuplicationOf(self, example, split_docs(example), get_num_docs(example),
                  CeilFrac(perturbed_frac, get_num_docs(example)), target)

AdditionOf(self, example, input_docs, k, target, documents) ==
    Then(IF self.strategy = "random"
         THEN _select_docs(self, documents, k, Some(example), None, TRUE)
         ELSE _select_docs(self, documents, k, Some(example), target, self.strategy = "best-case"),
         LAMBDA sampled_docs : join(input_docs \o sampled_docs))

addition(self, example, perturbed_frac, target, documents) ==
    AdditionOf(self, example, split_docs(example),
               CeilFrac(perturbed_frac, get_num_docs(example)), target, documents)

RECURSIVE Survivors(_, _, _)
\* doc for j, doc in enumerate(input_docs) if j not in to_delete
Survivors(input_docs, to_delete, j) ==
    IF j > Len(input_docs) THEN <<>>
    ELSE IF InSeq(j, to_delete) THEN Survivors(input_docs, to_delete, j + 1)
    ELSE <<input_docs[j]>> \o Survivors(input_docs, to_delete, j + 1)

\* [input_docs.index(doc) for doc in sampled_docs]
IndicesOf(input_docs, docs) == [j \in 1..Len(docs) |-> IndexOf(input_docs, docs[j])]

\* range(num_docs), as positions
Range(num_docs) == [j \in 1..num_docs |-> j]

\* The selection and reassembly of deletion (lines 359-375).
DeleteSelected(self, example, input_docs, num_docs, k, target) ==
    Then(IF self.strategy = "random"
              THEN Drawn(Sample(self.rng, Range(num_docs), k), {})
              ELSE Then(_select_docs(self, <<example>>, k, None, target,
                                     self.strategy = "worst-case"),
                        LAMBDA sampled_docs : IndicesOf(input_docs, sampled_docs)),
              LAMBDA to_delete : join(Survivors(input_docs, to_delete, 1)))

\* Mutant of DeletionOf: no early return when every document is deleted.
DeletionOfNoEarlyReturn(self, example, input_docs, num_docs, k, target) ==
    DeleteSelected(self, example, input_docs, num_docs, k, target)

DeletionOf(self, example, input_docs, num_docs, k, target) ==
    IF k = num_docs THEN Done(<<>>, self.rng, {}, <<>>, 0)
    ELSE DeleteSelected(self, example, input_docs, num_docs, k, target)

deletion(self, example, perturbed_frac, target, documents) ==
    DeletionOf(self, example, split_docs(example), get_num_docs(example),
               CeilFrac(perturbed_frac, get_num_docs(example)), target)

RECURSIVE Overwrite(_, _, _, _)
\* for i, doc in zip(replace_indices, sampled_docs): input_docs[i] = doc.strip()
Overwrite(input_docs, replace_indices, sampled_docs, j) ==
    IF j > Len(replace_indices) \/ j > Len(sampled_docs) THEN input_docs
    ELSE Overwrite([input_docs EXCEPT ![replace_indices[j]] = sampled_docs[j]],
                   replace_indices, sampled_docs, j + 1)

\* Mutant of ReplaceIndices: the positions are sampled under every strategy.
ReplaceIndicesSampled(self, example, input_docs, num_docs, k, target, s) ==
    Drawn(Sample(s, Range(num_docs), k), {})

\* The positions to overwrite, chosen after the replacements were.
ReplaceIndices(self, example, input_docs, num_docs, k, target, s) ==
    IF self.strategy = "random"
    THEN Drawn(Sample(s, Range(num_docs), k), {})
    ELSE Then(_select_docs([self EXCEPT !.rng = s], <<example>>, k, None, target,
                           self.strategy # "best-case"),
              LAMBDA to_replace : IndicesOf(input_docs, to_replace))

\* The effects of both selections, and the error or value of the second.
Both(sampled, where, val) ==
    [val |-> IF where.err # "" THEN <<>> ELSE val, rng |-> where.rng, err |-> where.err,
     warn |-> sampled.warn \cup where.warn, reqs |-> sampled.reqs \o where.reqs,
     nenc |-> sampled.nenc + where.nenc, log |-> sampled.log \o where.log]

Replaced(input_docs, sampled, where) ==
    Both(sampled, where,
         IF where.err # "" THEN <<>> ELSE join(Overwrite(input_docs, where.val, sampled.val, 1)))

ReplacementWith(self, example, input_docs, num_docs, k, target, sampled) ==
    IF sampled.err # "" THEN sampled
    ELSE Replaced(input_docs, sampled,
                  ReplaceIndices(self, example, input_docs, num_docs, k, target, sampled.rng))

ReplacementOf(self, example, input_docs, num_docs, k, target, documents) ==
    ReplacementWith(self, example, input_docs, num_docs, k, target,
                    IF self.strategy = "random"
                    THEN _select_docs(self, documents, k, Some(example), None, TRUE)
                    ELSE _select_docs(self, documents, k, Some(example), target,
                                      self.strategy = "best-case"))

replacement(self, example, perturbed_frac, target, documents) ==
    ReplacementOf(self, example, split_docs(example), get_num_docs(example),
                  CeilFrac(perturbed_frac, get_num_docs(example)), target, documents)

\* ------------------------------------------------------------ _get_doc_embeddings
\* Mutant of _get_doc_embeddings: no memoisation, every request encodes.
EncodeEveryTime(store, key) ==
    [memo |-> store.memo \cup {key},
     runs |-> [x \in DOMAIN store.runs \cup {key} |->
                  IF x = key
                  THEN (IF key \in DOMAIN store.runs THEN store.runs[key] ELSE 0) + 1
                  ELSE store.runs[x]]]

\* The process-wide lru_cache of _get_doc_embeddings: memo is the set of keys
\* (document tuple, embedder) it holds, runs counts the executions of the
\* batched encode per key.
_get_doc_embeddings(store, key) ==
    IF key \in store.memo THEN store
    ELSE [memo |-> store.memo \cup {key},
          runs |-> [x \in DOMAIN store.runs \cup {key} |->
                       IF x = key
                       THEN (IF key \in DOMAIN store.runs THEN store.runs[key] ELSE 0) + 1
                       ELSE store.runs[x]]]

RECURSIVE Embed(_, _, _)
\* The requests of one operator invocation, in order.
Embed(store, reqs, embedder) ==
    IF reqs = <<>> THEN store
    ELSE Embed(_get_doc_embeddings(store, <<Head(reqs), embedder>>), Tail(reqs), embedder)

\* ------------------------------------------------------------ inputs
Operators == {"backtranslation", "sorting", "duplication", "addition", "deletion", "replacement"}

\* The names getattr(self, perturbation, None) resolves when __init__ looks the
\* operator up: the six operators, and every other attribute of the object.
Attributes == Operators \cup {"_select_docs", "__call__", "_perturbation"}

\* The perturbation names callers try.
PerturbationNames == Operators \cup {"_select_docs", "shuffling"}

Strategies == {"random", "best-case", "worst-case"}

Seeds == {None, Some(1)}

SeqsUpTo(S, n) == UNION {[1..m -> S] : m \in 0..n}

\* The examples callers pass: documents joined by the separator.
Corpus == {<<"a", Sep, "b">>, <<"b", Sep, "a", Sep, "b">>}

Batches == SeqsUpTo(Corpus, MaxBatch)

TargetTexts == {<<>>, <<"t">>}

TargetLists == {None} \cup {Some(t) : t \in SeqsUpTo(TargetTexts, MaxBatch)}

Fracs == {None, Some(<<0, 1>>), Some(<<1, 2>>), Some(<<1, 1>>)}

DocumentLists == {None, Some(<< <<"c", Sep, "d", Sep, "a">> >>)}

\* ------------------------------------------------------------ state
VARIABLES
    constructed,    \* "no", "yes", or "failed" when __init__ raised
    init_err,       \* the error __init__ raised ("" when none)
    perturber,      \* the Perturber objects built (built alike, called alike): their fields
    frame,          \* per Perturber, the frame of its current or last __call__
    inputs,         \* the arguments of the current or last __call__
    perturbed_frac,
    targets,
    documents,
    store,          \* the cache of _get_doc_embeddings
    calls           \* calls made so far

vars == <<constructed, init_err, perturber, frame, inputs, perturbed_frac, targets, documents,
          store, calls>>

Ids == DOMAIN perturber

\* A frame before the first call.
NoFrame ==
    [pc |-> "idle", documents |-> <<>>, targets |-> <<>>, i |-> 0, perturbed_inputs |-> <<>>,
     result |-> None, err |-> "", warned |-> {}, rng0 |-> 0, memo0 |-> {}, trail |-> <<>>,
     encoded |-> 0, log |-> <<>>]

Init ==
    /\ constructed = "no"
    /\ init_err = ""
    /\ perturber = <<>>
    /\ frame = <<>>
    /\ inputs = <<>>
    /\ perturbed_frac = None
    /\ targets = None
    /\ documents = None
    /\ store = [memo |-> {}, runs |-> <<>>]
    /\ calls = 0

\* ------------------------------------------------------------ Perturber.__init__
\* getattr(self, self._perturbation, None)
LookupAttribute(perturbation) == IF perturbation \in Attributes THEN Some(perturbation) ELSE None

NewPerturber(perturbation, strategy, seed, s, id) ==
    [perturbation |-> perturbation, strategy |-> strategy, seed |-> seed, rng |-> s,
     aug |-> perturbation = "backtranslation",
     embedder |-> IF strategy # "random" THEN id ELSE 0]

\* Perturber(perturbation, doc_sep_token, strategy, seed), `copies` times with
\* the same arguments.
__init__(perturbation, strategy, seed, copies) ==
    /\ constructed = "no"
    /\ IF LookupAttribute(perturbation) = None
       THEN /\ constructed' = "failed"
            /\ init_err' = "UnknownPerturbation"
            /\ UNCHANGED <<perturber, frame>>
       ELSE /\ constructed' = "yes"
            /\ init_err' = ""
            /\ \E rngs \in [1..copies -> RngInit(seed)] :
                  perturber' = [id \in 1..copies |->
                                   NewPerturber(perturbation, strategy, seed, rngs[id], id)]
            /\ frame' = [id \in 1..copies |-> NoFrame]
    /\ UNCHANGED <<inputs, perturbed_frac, targets, documents, store, calls>>

\* ------------------------------------------------------------ Perturber.__call__
\* The candidate pool: inputs + documents, deduplicated.
CandidatePool(ins, docs) == Dedup(IF docs # None THEN ins \o docs[1] ELSE ins, <<>>)

\* zip_longest(inputs, targets): the target paired with example j.
zip_longest(tgts, j) == IF j <= Len(tgts) THEN Some(tgts[j]) ELSE None

\* The frame once the loop is set up (lines 125-137).
Loop(fresh, self, ins, tgts, docs) ==
    [fresh EXCEPT !.pc = "loop",
                  !.warned = IF docs # None /\ self.perturbation \notin {"addition", "replacement"}
                             THEN {"documents-ignored"} ELSE {},
                  !.targets = IF tgts # None THEN tgts[1] ELSE <<>>,
                  !.documents = CandidatePool(ins, docs),
                  !.i = 1]

\* The frame of the no-op return (lines 119-123).
Unchanged(fresh, ins) ==
    [fresh EXCEPT !.pc = "returned", !.result = Some(ins), !.warned = {"perturbed_frac-falsey"}]

\* Mutant of Enter: the no-op return is tried before the length check.
EnterNoOpFirst(self, fr, ins, frac, tgts, docs) ==
    IF self.perturbation # "sorting" /\ FracFalsey(frac)
    THEN Unchanged([NoFrame EXCEPT !.rng0 = self.rng, !.memo0 = store.memo], ins)
    ELSE IF tgts # None /\ Len(ins) # Len(tgts[1])
    THEN [NoFrame EXCEPT !.rng0 = self.rng, !.memo0 = store.memo, !.pc = "raised",
                         !.err = "ArgumentMismatch"]
    ELSE Loop([NoFrame EXCEPT !.rng0 = self.rng, !.memo0 = store.memo], self, ins, tgts, docs)

\* Mutant of Enter: sorting is not exempt from the no-op return.
EnterSortingNotExempt(self, fr, ins, frac, tgts, docs) ==
    IF tgts # None /\ Len(ins) # Len(tgts[1])
    THEN [NoFrame EXCEPT !.rng0 = self.rng, !.memo0 = store.memo, !.pc = "raised",
                         !.err = "ArgumentMismatch"]
    ELSE IF FracFalsey(frac)
    THEN Unchanged([NoFrame EXCEPT !.rng0 = self.rng, !.memo0 = store.memo], ins)
    ELSE Loop([NoFrame EXCEPT !.rng0 = self.rng, !.memo0 = store.memo], self, ins, tgts, docs)

\* Entry of __call__ up to the loop: the checks, the no-op return, the pool.
Enter(self, fr, ins, frac, tgts, docs) ==
    IF tgts # None /\ Len(ins) # Len(tgts[1])
    THEN [NoFrame EXCEPT !.rng0 = self.rng, !.memo0 = store.memo, !.pc = "raised",
                         !.err = "ArgumentMismatch"]
    ELSE IF self.perturbation # "sorting" /\ FracFalsey(frac)
    THEN Unchanged([NoFrame EXCEPT !.rng0 = self.rng, !.memo0 = store.memo], ins)
    ELSE Loop([NoFrame EXCEPT !.rng0 = self.rng, !.memo0 = store.memo], self, ins, tgts, docs)

__call__(ins, frac, tgts, docs, limit) ==
    /\ constructed = "yes"
    /\ calls < limit
    /\ \A id \in Ids : frame[id].pc = "idle"
    /\ inputs' = ins
    /\ perturbed_frac' = frac
    /\ targets' = tgts
    /\ documents' = docs
    /\ frame' = [id \in Ids |-> Enter(perturber[id], frame[id], ins, frac, tgts, docs)]
    /\ calls' = calls + 1
    /\ UNCHANGED <<constructed, init_err, perturber, store>>

\* self._perturbation_func(example=, target=, perturbed_frac=, documents=)
Dispatch(self, example, frac, target, docs) ==
    CASE self.perturbation = "backtranslation" -> backtranslation(self, example, frac, target, docs)
      [] self.perturbation = "sorting" -> sorting(self, example, frac, target, docs)
      [] self.perturbation = "duplication" -> duplication(self, example, frac, target, docs)
      [] self.perturbation = "addition" -> addition(self, example, frac, target, docs)
      [] self.perturbation = "deletion" -> deletion(self, example, frac, target, docs)
      [] self.perturbation = "replacement" -> replacement(self, example, frac, target, docs)
      [] OTHER -> Raise("TypeError", self.rng, {}, <<>>, 0)

\* What one iteration of the loop yields for Perturber id.
Iteration(id) ==
    Dispatch(perturber[id], inputs[frame[id].i], perturbed_frac,
             zip_longest(frame[id].targets, frame[id].i), frame[id].documents)

Running(id) == frame[id].pc = "loop" /\ frame[id].i <= Len(inputs)

\* Mutant of Collect: the result is put in front.
CollectInFront(perturbed_inputs, perturbed_example) == <<perturbed_example>> \o perturbed_inputs

\* perturbed_inputs.append(perturbed_example)
Collect(perturbed_inputs, perturbed_example) == Append(perturbed_inputs, perturbed_example)

\* Mutant of AfterIteration: an example whose operator raised is left out and
\* the loop goes on.
AfterIterationSkipFailed(fr, r, s) ==
    IF r.err # ""
    THEN [fr EXCEPT !.i = @ + 1,
                    !.warned = @ \cup r.warn, !.trail = Append(@, s),
                    !.encoded = @ + r.nenc, !.log = @ \o r.log]
    ELSE [fr EXCEPT !.i = @ + 1, !.perturbed_inputs = Collect(@, r.val),
                    !.warned = @ \cup r.warn, !.trail = Append(@, s),
                    !.encoded = @ + r.nenc, !.log = @ \o r.log]

AfterIteration(fr, r, s) ==
    IF r.err # ""
    THEN [fr EXCEPT !.pc = "raised", !.err = r.err, !.perturbed_inputs = <<>>,
                    !.warned = @ \cup r.warn, !.trail = Append(@, s),
                    !.encoded = @ + r.nenc, !.log = @ \o r.log]
    ELSE [fr EXCEPT !.i = @ + 1, !.perturbed_inputs = Collect(@, r.val),
                    !.warned = @ \cup r.warn, !.trail = Append(@, s),
                    !.encoded = @ + r.nenc, !.log = @ \o r.log]

RECURSIVE EmbedAll(_, _, _)
\* The cache after the requests of each Perturber in turn.
EmbedAll(st, rs, id) ==
    IF id > Len(rs) THEN st
    ELSE EmbedAll(Embed(st, rs[id].reqs, perturber[id].embedder), rs, id + 1)

\* A Perturber that is not in its loop does nothing.
Skip(id) == Done(<<>>, perturber[id].rng, {}, <<>>, 0)

\* The state after the iterations rs, one per Perturber.
Advance(rs) ==
    /\ frame' = [id \in Ids |->
                    IF Running(id) THEN AfterIteration(frame[id], rs[id], perturber[id].rng)
                    ELSE frame[id]]
    /\ perturber' = [id \in Ids |-> [perturber[id] EXCEPT !.rng = rs[id].rng]]
    /\ store' = EmbedAll(store, rs, 1)

\* One iteration of the loop of __call__: the operator on the next example.
_perturbation_func ==
    /\ constructed = "yes"
    /\ {id \in Ids : Running(id)} # {}
    /\ Advance([id \in Ids |-> IF Running(id) THEN Iteration(id) ELSE Skip(id)])
    /\ UNCHANGED <<constructed, init_err, inputs, perturbed_frac, targets, documents, calls>>

Finished(id) == frame[id].pc = "loop" /\ frame[id].i > Len(inputs)

\* return perturbed_inputs
Return ==
    /\ constructed = "yes"
    /\ {id \in Ids : Finished(id)} # {}
    /\ \A id \in Ids : ~Running(id)
    /\ frame' = [id \in Ids |->
                    IF Finished(id)
                    THEN [frame[id] EXCEPT !.pc = "returned", !.result = Some(frame[id].perturbed_inputs)]
                    ELSE frame[id]]
    /\ UNCHANGED <<constructed, init_err, perturber, inputs, perturbed_frac, targets, documents,
                   store, calls>>

\* The caller takes what the call returned or raised; the frame is gone.
Receive ==
    /\ constructed = "yes"
    /\ \A id \in Ids : frame[id].pc \in {"returned", "raised"}
    /\ frame' = [id \in Ids |-> NoFrame]
    /\ inputs' = <<>>
    /\ perturbed_frac' = None
    /\ targets' = None
    /\ documents' = None
    /\ UNCHANGED <<constructed, init_err, perturber, store, calls>>

\* A fresh Perturber, called once.
Next ==
    \/ \E perturbation \in PerturbationNames, strategy \in Strategies, seed \in Seeds :
          __init__(perturbation, strategy, seed, 1)
    \/ \E ins \in Batches, frac \in Fracs, tgts \in TargetLists, docs \in DocumentLists :
          __call__(ins, frac, tgts, docs, 1)
    \/ _perturbation_func
    \/ Return

Spec == Init /\ [][Next]_vars

\* Two Perturbers built with the same arguments and called alike, up to MaxCalls
\* times, strategy random.
NextTwin ==
    \/ \E perturbation \in PerturbationNames, seed \in Seeds :
          __init__(perturbation, "random", seed, 2)
    \/ \E ins \in Batches, frac \in Fracs, tgts \in TargetLists, docs \in DocumentLists :
          __call__(ins, frac, tgts, docs, MaxCalls)
    \/ _perturbation_func
    \/ Return
    \/ Receive

SpecTwin == Init /\ [][NextTwin]_vars

\* Examples holding the same documents in different orders.
Reordered == {<<"a", Sep, "b">>, <<"b", Sep, "a">>}

\* One process: two Perturbers with a non-random strategy, each with an
\* embedder of its own, sharing the cache of _get_doc_embeddings over up to
\* MaxCalls calls, every example with a target.
NextCache ==
    \/ \E perturbation \in {"sorting", "duplication"}, strategy \in {"best-case", "worst-case"} :
          __init__(perturbation, strategy, Some(1), 2)
    \/ \E ins \in SeqsUpTo(Reordered, MaxBatch), frac \in {Some(<<1, 2>>), Some(<<1, 1>>)} :
          __call__(ins, frac, Some([j \in 1..Len(ins) |-> <<"t">>]), None, MaxCalls)
    \/ _perturbation_func
    \/ Return
    \/ Receive

SpecCache == Init /\ [][NextCache]_vars

\* ------------------------------------------------------------ properties
\* The current call was made with targets of another length than inputs.
Mismatch == targets # None /\ Len(inputs) # Len(targets[1])

Called(id) == frame[id].pc # "idle"

\* The call went through the loop to its end.
Looped(id) == frame[id].pc = "returned" /\ "perturbed_frac-falsey" \notin frame[id].warned

\* The target that goes with example j of the call.
TargetOf(j) == IF targets = None THEN None ELSE Some(targets[1][j])

\* The operator applied to example j alone, the generator being where the
\* loop found it.
Expected(id, j) ==
    Dispatch([perturber[id] EXCEPT !.rng = frame[id].trail[j]], inputs[j], perturbed_frac,
             TargetOf(j), CandidatePool(inputs, documents))

\* C1: a call that runs the loop to its end returns one string per example,
\* in the order of inputs: element j is what the operator yields for example j
\* with target j, the call's perturbed_frac and the pool of the call, and the
\* examples are processed in order (the generator is handed from one to the next).
C1_PerExampleInOrder ==
    \A id \in Ids :
        Looped(id) =>
            /\ Len(frame[id].result[1]) = Len(inputs)
            /\ Len(frame[id].trail) = Len(inputs)
            /\ \A j \in 1..Len(inputs) :
                  /\ Expected(id, j).err = ""
                  /\ frame[id].result[1][j] = Expected(id, j).val
                  /\ frame[id].trail[j] = IF j = 1 THEN frame[id].rng0 ELSE Expected(id, j - 1).rng
            /\ perturber[id].rng = IF inputs = <<>> THEN frame[id].rng0
                                   ELSE Expected(id, Len(inputs)).rng

\* A call on two different examples with two different targets has returned
\* a perturbed batch.
C1_Witness ==
    \E id \in Ids :
        /\ Looped(id)
        /\ Len(inputs) = 2
        /\ inputs[1] # inputs[2]
        /\ targets # None
        /\ targets[1][1] # targets[1][2]
        /\ frame[id].result[1][1] # inputs[1]
        /\ frame[id].result[1][2] # inputs[2]
        /\ frame[id].result[1][1] # frame[id].result[1][2]

\* C2: when targets is given with another length than inputs, the call raises
\* the mismatch error and nothing else has happened: no operator ran, no
\* selection, no draw from the generator, no encoding, no warning, no result.
C2_MismatchBeforeAnything ==
    \A id \in Ids :
        Called(id) /\ Mismatch =>
            /\ frame[id].pc = "raised"
            /\ frame[id].err = "ArgumentMismatch"
            /\ frame[id].result = None
            /\ frame[id].trail = <<>>
            /\ frame[id].log = <<>>
            /\ frame[id].warned = {}
            /\ frame[id].encoded = 0
            /\ perturber[id].rng = frame[id].rng0
            /\ store.memo = frame[id].memo0

\* A call with mismatched targets and a falsy perturbed_frac, on an operator
\* other than sorting, has raised.
C2_Witness ==
    \E id \in Ids :
        /\ Mismatch
        /\ inputs # <<>>
        /\ FracFalsey(perturbed_frac)
        /\ perturber[id].perturbation \in Operators \ {"sorting"}
        /\ frame[id].pc = "raised"

\* C3: with a falsy perturbed_frac (None or 0) and no mismatch, an operator
\* other than sorting returns the inputs unchanged with a warning, and nothing
\* ran; sorting gives no such warning and goes through the loop, returning
\* the sorted examples.
C3_NoOpExceptSorting ==
    \A id \in Ids :
        Called(id) /\ ~Mismatch /\ FracFalsey(perturbed_frac) =>
            IF perturber[id].perturbation # "sorting"
            THEN /\ frame[id].pc = "returned"
                 /\ frame[id].result = Some(inputs)
                 /\ frame[id].warned = {"perturbed_frac-falsey"}
                 /\ frame[id].trail = <<>>
                 /\ frame[id].log = <<>>
                 /\ perturber[id].rng = frame[id].rng0
            ELSE /\ "perturbed_frac-falsey" \notin frame[id].warned
                 /\ frame[id].pc = "loop" => Len(frame[id].trail) = frame[id].i - 1
                 /\ frame[id].pc = "raised" => Len(frame[id].trail) >= 1
                 /\ frame[id].pc = "returned" =>
                       /\ Len(frame[id].trail) = Len(inputs)
                       /\ Len(frame[id].result[1]) = Len(inputs)
                       /\ \A j \in 1..Len(inputs) :
                             frame[id].result[1][j] =
                                 sorting([perturber[id] EXCEPT !.rng = frame[id].trail[j]],
                                         inputs[j], perturbed_frac, TargetOf(j), <<>>).val

\* A deletion with perturbed_frac 0 on a batch of two has returned.
C3_Witness ==
    \E id \in Ids :
        /\ perturber[id].perturbation = "deletion"
        /\ perturbed_frac = Some(<<0, 1>>)
        /\ ~Mismatch
        /\ Len(inputs) = 2
        /\ frame[id].pc = "returned"
        /\ frame[id].result = Some(inputs)

\* C4: a Perturber is never constructed with a perturbation name that is not
\* one of the six operators (construction fails with unknown-perturbation).
C4_OnlyTheSixOperators ==
    constructed = "yes" => \A id \in Ids : perturber[id].perturbation \in Operators

IsCeil(k, n) ==
    /\ k * perturbed_frac[1][2] >= perturbed_frac[1][1] * n
    /\ (k - 1) * perturbed_frac[1][2] < perturbed_frac[1][1] * n

\* The outputs the call holds: those collected so far and, once returned
\* from the loop, the result.
Outputs(id) == IF Looped(id) THEN frame[id].result[1] ELSE frame[id].perturbed_inputs

\* C6: deletion with perturbed_frac 1 turns every example into the empty
\* string, with no selection, no draw from the generator, no encoding and no
\* error, whatever the strategy and the targets.
C6_DeleteEverything ==
    \A id \in Ids :
        /\ perturber[id].perturbation = "deletion"
        /\ Called(id) /\ ~Mismatch
        /\ perturbed_frac = Some(<<1, 1>>)
        => /\ frame[id].pc \in {"loop", "returned"}
           /\ frame[id].err = ""
           /\ Len(frame[id].perturbed_inputs) = Len(frame[id].trail)
           /\ \A j \in 1..Len(Outputs(id)) : Outputs(id)[j] = <<>>
           /\ frame[id].pc = "returned" => Len(frame[id].result[1]) = Len(inputs)
           /\ frame[id].log = <<>>
           /\ frame[id].encoded = 0
           /\ frame[id].warned \subseteq {"documents-ignored"}
           /\ perturber[id].rng = frame[id].rng0
           /\ store.memo = frame[id].memo0

\* A best-case deletion of everything, called without targets on a batch of
\* two, has returned two empty strings.
C6_Witness ==
    \E id \in Ids :
        /\ perturber[id].perturbation = "deletion"
        /\ perturber[id].strategy = "best-case"
        /\ perturbed_frac = Some(<<1, 1>>)
        /\ targets = None
        /\ Len(inputs) = 2
        /\ frame[id].pc = "returned"
        /\ frame[id].result = Some(<< <<>>, <<>> >>)

Count(docs, d) == Cardinality({p \in 1..Len(docs) : docs[p] = d})

\* C8: the output of sorting holds exactly the documents of the example, each
\* as often as the example does; under best-case they stand in descending,
\* under worst-case in ascending similarity to the target.
C8_SortingPermutes ==
    \A id \in Ids :
        perturber[id].perturbation = "sorting" =>
            \A j \in 1..Len(Outputs(id)) :
                /\ Len(split_docs(Outputs(id)[j])) = Len(split_docs(inputs[j]))
                /\ \A p \in 1..Len(split_docs(inputs[j])) :
                      Count(split_docs(Outputs(id)[j]), split_docs(inputs[j])[p])
                          = Count(split_docs(inputs[j]), split_docs(inputs[j])[p])
                /\ perturber[id].strategy # "random" =>
                      /\ Truthy(TargetOf(j))
                      /\ \A p, q \in 1..Len(split_docs(Outputs(id)[j])) :
                            p < q =>
                                IF perturber[id].strategy = "best-case"
                                THEN dot_score(targets[1][j], split_docs(Outputs(id)[j])[p])
                                         >= dot_score(targets[1][j], split_docs(Outputs(id)[j])[q])
                                ELSE dot_score(targets[1][j], split_docs(Outputs(id)[j])[p])
                                         <= dot_score(targets[1][j], split_docs(Outputs(id)[j])[q])

\* A best-case sorting has reordered a three-document example.
C8_Witness ==
    \E id \in Ids :
        /\ perturber[id].perturbation = "sorting"
        /\ perturber[id].strategy = "best-case"
        /\ Looped(id)
        /\ Len(inputs) >= 1
        /\ Len(split_docs(inputs[1])) = 3
        /\ frame[id].result[1][1] # inputs[1]

\* The documents of query, as a set.
QueryDocs(query) == IF query = None THEN {} ELSE {split_docs(query[1])[p] : p \in 1..Len(split_docs(query[1]))}

\* The number of documents of strs that remain once those of query are removed.
Remaining(strs, query) ==
    Cardinality({pos \in UNION {{<<j, p>> : p \in 1..Len(split_docs(strs[j]))} : j \in 1..Len(strs)} :
                    split_docs(strs[pos[1]])[pos[2]] \notin QueryDocs(query)})

\* C9: an invocation of the selector that asks for more documents than remain
\* after flattening and filtering raises insufficient-candidates, and one that
\* succeeds yields exactly k documents; so addition and replacement raise
\* that error on an example for which the pool holds too few other documents.
C9_InsufficientCandidates ==
    \A id \in Ids :
        /\ \A n \in 1..Len(frame[id].log) :
              /\ Remaining(frame[id].log[n].documents, frame[id].log[n].query) < frame[id].log[n].k
                     => frame[id].log[n].err = "InsufficientCandidates"
              /\ frame[id].log[n].err = "" => Len(frame[id].log[n].val) = frame[id].log[n].k
        /\ perturber[id].perturbation \in {"addition", "replacement"} =>
              \A j \in 1..Len(frame[id].trail) :
                  \A k \in 1..Len(split_docs(inputs[j])) :
                      /\ IsCeil(k, Len(split_docs(inputs[j])))
                      /\ Remaining(CandidatePool(inputs, documents), Some(inputs[j])) < k
                      => /\ frame[id].pc = "raised"
                         /\ frame[id].err = "InsufficientCandidates"
                         /\ Len(frame[id].trail) = j

\* An addition called without documents, on a batch whose other examples hold
\* no new document, has raised insufficient-candidates.
C9_Witness ==
    \E id \in Ids :
        /\ perturber[id].perturbation = "addition"
        /\ documents = None
        /\ Len(inputs) = 2
        /\ frame[id].pc = "raised"
        /\ frame[id].err = "InsufficientCandidates"
        /\ Len(frame[id].log) = 1
        /\ frame[id].log[1].k > Remaining(frame[id].log[1].documents, frame[id].log[1].query)

\* C10: no document that addition or replacement brings in equals a document
\* of the example: the selector, given the example as query, yields none of
\* its documents, so what addition appends and what replacement writes over a
\* position is not a document of the example.
C10_NoDocumentOfTheExample ==
    \A id \in Ids :
        perturber[id].perturbation \in {"addition", "replacement"} =>
            /\ \A n \in 1..Len(frame[id].log) :
                  frame[id].log[n].query # None =>
                      \A p \in 1..Len(frame[id].log[n].val) :
                          frame[id].log[n].val[p] \notin QueryDocs(frame[id].log[n].query)
            /\ ~FracFalsey(perturbed_frac) =>
                  \A j \in 1..Len(Outputs(id)) :
                      \A p \in 1..Len(split_docs(Outputs(id)[j])) :
                          \/ /\ p <= Len(split_docs(inputs[j]))
                             /\ split_docs(Outputs(id)[j])[p] = split_docs(inputs[j])[p]
                          \/ split_docs(Outputs(id)[j])[p] \notin QueryDocs(Some(inputs[j]))

\* A best-case replacement, with documents given, has returned an example
\* that holds a document it did not hold before.
C10_Witness ==
    \E id \in Ids :
        /\ perturber[id].perturbation = "replacement"
        /\ perturber[id].strategy = "best-case"
        /\ documents # None
        /\ Looped(id)
        /\ Len(inputs) >= 1
        /\ \E p \in 1..Len(split_docs(frame[id].result[1][1])) :
              split_docs(frame[id].result[1][1])[p] \notin QueryDocs(Some(inputs[1]))

\* An absent or empty string.
Falsy == {None, Some(<<>>)}

\* The outcome r of a selector invocation without query and target: under a
\* non-random strategy invalid-argument and nothing done, under random
\* another outcome.
Refused(self, r) ==
    IF self.strategy = "random" THEN r.err # "InvalidArgument"
    ELSE r.err = "InvalidArgument" /\ r.reqs = <<>> /\ r.nenc = 0 /\ r.rng = self.rng

\* C11: under best-case and worst-case the selector, given neither a non-empty
\* query nor a non-empty target, raises invalid-argument whatever k and the
\* documents are (so before filtering and counting), with no embedding and
\* no draw; under random such an invocation never raises that error.
C11_InvalidArgumentFirst ==
    \A id \in Ids :
        /\ perturber[id].strategy = "random" => frame[id].err # "InvalidArgument"
        /\ \A n \in 1..Len(frame[id].log) :
              /\ /\ perturber[id].strategy # "random"
                 /\ ~Truthy(frame[id].log[n].query)
                 /\ ~Truthy(frame[id].log[n].target)
                 => /\ frame[id].log[n].err = "InvalidArgument"
                    /\ frame[id].log[n].reqs = <<>>
              /\ \A query \in Falsy, target \in Falsy, k \in 0..(Len(frame[id].log[n].cands) + 1) :
                    Refused(perturber[id],
                            _select_docs(perturber[id], frame[id].log[n].documents, k, query, target,
                                         frame[id].log[n].largest))

\* A best-case sorting called without targets has raised invalid-argument on
\* its first example, and nothing was encoded.
C11_Witness ==
    \E id \in Ids :
        /\ perturber[id].perturbation = "sorting"
        /\ perturber[id].strategy = "best-case"
        /\ targets = None
        /\ inputs # <<>>
        /\ frame[id].pc = "raised"
        /\ frame[id].err = "InvalidArgument"
        /\ Len(frame[id].log) = 1
        /\ frame[id].encoded = 0
        /\ store.memo = frame[id].memo0

\* The cache keys Perturber id has asked for in its current call.
Requested(id) ==
    UNION {{<<frame[id].log[n].reqs[q], perturber[id].embedder>> :
               q \in 1..Len(frame[id].log[n].reqs)} : n \in 1..Len(frame[id].log)}

\* C12: the batched encode has run exactly once for every key (document
\* tuple, embedder) the cache holds, and the keys encoded during a call are
\* exactly those asked for that the cache did not hold before: a key asked
\* for again, in the same or a later call, is not encoded again, and the same
\* documents in another order, or under another embedder, are a key of their own.
C12_EncodeOncePerKey ==
    /\ DOMAIN store.runs = store.memo
    /\ \A key \in store.memo : store.runs[key] = 1
    /\ \A id \in Ids :
          Called(id) =>
              store.memo = frame[id].memo0 \cup UNION {Requested(other) : other \in Ids}

\* In a second call a Perturber has asked again for a tuple encoded in the
\* first, and the cache holds that tuple, its reordering, and the same tuple
\* under the other embedder, each encoded once.
C12_Witness ==
    /\ calls = 2
    /\ Len(perturber) = 2
    /\ \E key \in Requested(1) :
          /\ key \in frame[1].memo0
          /\ store.runs[key] = 1
    /\ << << <<"a">>, <<"b">> >>, 1 >> \in store.memo
    /\ << << <<"b">>, <<"a">> >>, 1 >> \in store.memo
    /\ << << <<"a">>, <<"b">> >>, 2 >> \in store.memo

\* The operator applied to example j as in a call made without documents.
WithoutDocuments(id, j) ==
    Dispatch([perturber[id] EXCEPT !.rng = frame[id].trail[j]], inputs[j], perturbed_frac,
             TargetOf(j), CandidatePool(inputs, None))

\* Example j of the current call went as the outcome r says: its output, the
\* random source handed on, and the error if it is the last one processed.
Went(id, j, r) ==
    /\ j <= Len(Outputs(id)) => Outputs(id)[j] = r.val
    /\ j < Len(frame[id].trail) => frame[id].trail[j + 1] = r.rng
    /\ j = Len(frame[id].trail) => perturber[id].rng = r.rng /\ frame[id].err = r.err

\* C13: for sorting, duplication, deletion and backtranslation a call with
\* documents warns that they are ignored and goes as the same call without
\* documents: every example yields the same output, error, random source and
\* selections as it would with the pool of the inputs alone.
C13_DocumentsIgnored ==
    \A id \in Ids :
        /\ perturber[id].perturbation \in {"sorting", "duplication", "deletion", "backtranslation"}
        /\ Called(id) /\ ~Mismatch
        => /\ frame[id].pc = "returned" /\ ~Looped(id) => frame[id].result = Some(inputs)
           /\ "documents-ignored" \in frame[id].warned
                  <=> (documents # None /\ "perturbed_frac-falsey" \notin frame[id].warned)
           /\ \A j \in 1..Len(frame[id].trail) :
                 /\ WithoutDocuments(id, j) = Expected(id, j)
                 /\ Went(id, j, WithoutDocuments(id, j))

\* A worst-case deletion called with documents has returned a perturbed
\* batch and warned that the documents are ignored.
C13_Witness ==
    \E id \in Ids :
        /\ perturber[id].perturbation = "deletion"
        /\ perturber[id].strategy = "worst-case"
        /\ documents # None
        /\ Looped(id)
        /\ Len(inputs) = 2
        /\ frame[id].result # Some(inputs)
        /\ "documents-ignored" \in frame[id].warned

\* C14: every document tuple handed to _get_doc_embeddings consists of
\* pairwise distinct strings.
C14_UniqueDocumentsEmbedded ==
    \A id \in Ids :
        \A n \in 1..Len(frame[id].log) :
            \A q \in 1..Len(frame[id].log[n].reqs) :
                \A x, y \in 1..Len(frame[id].log[n].reqs[q]) :
                    x # y => frame[id].log[n].reqs[q][x] # frame[id].log[n].reqs[q][y]

\* The operator applied to example j with target t in place of its own.
WithTarget(id, j, t) ==
    Dispatch([perturber[id] EXCEPT !.rng = frame[id].trail[j]], inputs[j], perturbed_frac, t,
             CandidatePool(inputs, documents))

\* The selector invoked as in log entry e, from random source s, with target t.
Reselect(id, e, s, t) ==
    _select_docs([perturber[id] EXCEPT !.rng = s], e.documents, e.k, e.query, t, e.largest)

\* Two outcomes with the same value, error and random source.
SameOutcome(a, b) == a.val = b.val /\ a.err = b.err /\ a.rng = b.rng

\* C15: under strategy random the selector, invoked from the same state of
\* the random source with a target (empty or not) instead of none, warns that
\* the target is ignored and yields the same documents, error and random
\* source; and every operator yields for every example the same output,
\* error and random source whatever target goes with it.
C15_TargetIgnoredUnderRandom ==
    \A id \in Ids :
        perturber[id].strategy = "random" =>
            /\ \A n \in 1..Len(frame[id].log), s \in RngStates, t \in TargetTexts :
                  /\ SameOutcome(Reselect(id, frame[id].log[n], s, Some(t)),
                                 Reselect(id, frame[id].log[n], s, None))
                  /\ "target-ignored" \in Reselect(id, frame[id].log[n], s, Some(t)).warn
                  /\ "target-ignored" \notin Reselect(id, frame[id].log[n], s, None).warn
            /\ \A j \in 1..Len(frame[id].trail), t \in {None} \cup {Some(x) : x \in TargetTexts} :
                  /\ SameOutcome(WithTarget(id, j, t), Expected(id, j))
                  /\ j <= Len(Outputs(id)) => Outputs(id)[j] = Expected(id, j).val

\* A random addition called with two different targets has selected
\* documents and returned a perturbed batch.
C15_Witness ==
    \E id \in Ids :
        /\ perturber[id].perturbation = "addition"
        /\ perturber[id].strategy = "random"
        /\ Looped(id)
        /\ targets # None
        /\ Len(inputs) = 2
        /\ targets[1][1] # targets[1][2]
        /\ Len(frame[id].log) = 2
        /\ frame[id].result # Some(inputs)

\* The errors the selector raises.
SelectionErrors == {"InsufficientCandidates", "InvalidArgument"}

\* If e, the error of example j, is a selection error, the call ended at
\* example j with it.
Aborted(id, j, e) ==
    e \in SelectionErrors =>
        /\ j = Len(frame[id].trail)
        /\ frame[id].pc = "raised"
        /\ frame[id].err = e
        /\ frame[id].result = None

\* C16: when the operator raises a selection error on an example, the call
\* ends there with that error: no later example is processed and no result
\* is returned, not even for the examples processed before it.
C16_SelectionErrorAbortsBatch ==
    \A id \in Ids :
        /\ frame[id].err \in SelectionErrors =>
              /\ frame[id].pc = "raised"
              /\ frame[id].result = None
              /\ frame[id].perturbed_inputs = <<>>
        /\ \A j \in 1..Len(frame[id].trail) : Aborted(id, j, Expected(id, j).err)

\* A call on a batch of two has raised a selection error on its second
\* example, the first having been perturbed without error.
C16_Witness ==
    \E id \in Ids :
        /\ frame[id].pc = "raised"
        /\ frame[id].err \in SelectionErrors
        /\ Len(inputs) = 2
        /\ Len(frame[id].trail) = 2
        /\ Expected(id, 1).err = ""
        /\ Expected(id, 1).val # inputs[1]
        /\ frame[id].result = None

\* C17: when k = ceil(perturbed_frac * n) is less than n, the output of
\* deletion holds exactly n - k documents.
C17_DeletionRemovesK ==
    \A id \in Ids :
        perturber[id].perturbation = "deletion" /\ ~FracFalsey(perturbed_frac) =>
            \A j \in 1..Len(Outputs(id)) :
                \A k \in 1..Len(split_docs(inputs[j])) :
                    IsCeil(k, Len(split_docs(inputs[j]))) /\ k < Len(split_docs(inputs[j])) =>
                        Len(split_docs(Outputs(id)[j])) = Len(split_docs(inputs[j])) - k

\* The positions at which the output differs from the example.
Changed(in, out) == {p \in 1..Len(in) : p > Len(out) \/ out[p] # in[p]}

\* C18: the output of replacement has as many documents as the example and
\* differs from it at exactly k = ceil(perturbed_frac * n) positions, which
\* hold k different documents.
C18_ReplacementOverwritesK ==
    \A id \in Ids :
        perturber[id].perturbation = "replacement" /\ ~FracFalsey(perturbed_frac) =>
            \A j \in 1..Len(Outputs(id)) :
                /\ Len(split_docs(Outputs(id)[j])) = Len(split_docs(inputs[j]))
                /\ IsCeil(Cardinality(Changed(split_docs(inputs[j]), split_docs(Outputs(id)[j]))),
                          Len(split_docs(inputs[j])))
                /\ \A p, q \in Changed(split_docs(inputs[j]), split_docs(Outputs(id)[j])) :
                      p # q => split_docs(Outputs(id)[j])[p] # split_docs(Outputs(id)[j])[q]

\* The documents of the pool that example j may be given: those of the pool
\* that are not documents of the example.
Eligible(id, j) == Candidates(CandidatePool(inputs, documents), Some(inputs[j]))

\* a ranks before b: more similar to the target under best-case (toward),
\* less similar under worst-case.
Before(toward, tgt, a, b) ==
    IF toward THEN dot_score(tgt, a) >= dot_score(tgt, b) ELSE dot_score(tgt, a) <= dot_score(tgt, b)

\* The documents written rank before every eligible document not written,
\* and the documents overwritten rank after every document left in place.
Polarity(toward, tgt, in, out, eligible) ==
    \A p \in Changed(in, out) :
        /\ \A c \in 1..Len(eligible) :
              (\A q \in Changed(in, out) : out[q] # eligible[c]) => Before(toward, tgt, out[p], eligible[c])
        /\ \A q \in (1..Len(in)) \ Changed(in, out) : Before(toward, tgt, in[q], in[p])

\* C19: under best-case the k eligible documents most similar to the target
\* overwrite the k documents of the example least similar to it, and under
\* worst-case the k least similar overwrite the k most similar.
C19_ReplacementPolarity ==
    \A id \in Ids :
        /\ perturber[id].perturbation = "replacement"
        /\ perturber[id].strategy # "random"
        /\ ~FracFalsey(perturbed_frac)
        => \A j \in 1..Len(Outputs(id)) :
              /\ IsCeil(Cardinality(Changed(split_docs(inputs[j]), split_docs(Outputs(id)[j]))),
                        Len(split_docs(inputs[j])))
              /\ Polarity(perturber[id].strategy = "best-case", targets[1][j], split_docs(inputs[j]),
                          split_docs(Outputs(id)[j]), Eligible(id, j))

\* C20: the output of backtranslation has as many documents as the example,
\* every position holds either its original document or the translation of
\* its original document, and exactly k = ceil(perturbed_frac * n) positions
\* hold the translation.
C20_BacktranslationInPlace ==
    \A id \in Ids :
        perturber[id].perturbation = "backtranslation" /\ ~FracFalsey(perturbed_frac) =>
            \A j \in 1..Len(Outputs(id)) :
                /\ Len(split_docs(Outputs(id)[j])) = Len(split_docs(inputs[j]))
                /\ \A p \in 1..Len(split_docs(inputs[j])) :
                      \/ split_docs(Outputs(id)[j])[p] = split_docs(inputs[j])[p]
                      \/ split_docs(Outputs(id)[j])[p] = Translate(split_docs(inputs[j])[p])
                /\ IsCeil(Cardinality({p \in 1..Len(split_docs(inputs[j])) :
                                          split_docs(Outputs(id)[j])[p]
                                              = Translate(split_docs(inputs[j])[p])}),
                          Len(split_docs(inputs[j])))

\* The operator applied to example j of the current call with the random
\* source in state s.
FromState(id, j, s) ==
    Dispatch([perturber[id] EXCEPT !.rng = s], inputs[j], perturbed_frac, TargetOf(j),
             CandidatePool(inputs, documents))

\* The outcome r of an operator started with the random source in state s
\* leaves it there and has the value and error of the outcome e.
Untouched(r, s, e) == r.rng = s /\ r.val = e.val /\ r.err = e.err

\* C21: under best-case and worst-case the random source stays in the state
\* it was constructed in throughout a call, whatever operators and selections
\* run, and every operator yields for every example the same output and
\* error from every state of the random source, leaving that state as it is;
\* so no sequence of calls moves it and the outputs do not depend on the seed.
C21_RandomSourceUntouched ==
    \A id \in Ids :
        perturber[id].strategy # "random" =>
            /\ perturber[id].rng \in RngInit(perturber[id].seed)
            /\ Called(id) =>
                  /\ perturber[id].rng = frame[id].rng0
                  /\ \A j \in 1..Len(frame[id].trail) : frame[id].trail[j] = frame[id].rng0
            /\ \A n \in 1..Len(frame[id].log) : frame[id].log[n].rng = perturber[id].rng
            /\ \A j \in 1..Len(frame[id].trail), s \in RngStates :
                  Untouched(FromState(id, j, s), s, Expected(id, j))

\* A best-case replacement with documents has made its two selections per
\* example and returned a perturbed batch of two.
C21_Witness ==
    \E id \in Ids :
        /\ perturber[id].perturbation = "replacement"
        /\ perturber[id].strategy = "best-case"
        /\ documents # None
        /\ Looped(id)
        /\ Len(inputs) = 2
        /\ Len(frame[id].log) = 4
        /\ frame[id].result # Some(inputs)

====
